---- MODULE Spec2Model ----
(***************************************************************************)
(* Model of hirefire/procs/celery.py: CeleryInspector (the memoizing       *)
(* worker-inspection cache) and CeleryProc.quantity / inspect_count.       *)
(*                                                                         *)
(* The program is single-threaded and every query to the broker or to the  *)
(* workers is a blocking round trip.  A call is modelled as a sequence of  *)
(* steps with at most one round trip each, and the broker and the workers  *)
(* move between the steps.  `ret` is the call in progress or the last call *)
(* that returned: its position (pc), its local variables and its result.   *)
(* `libs` says which client libraries can be imported and whose            *)
(* ChannelError the channel raises.                                        *)
(***************************************************************************)
EXTENDS Integers, Sequences, FiniteSets, TLC

VARIABLES broker, workers, libs, cache, calls, ret

vars == <<broker, workers, libs, cache, calls, ret>>

(***************************************************************************)
(* Bounds of the model.                                                    *)
(***************************************************************************)
MaxMsgs == 1        \* largest message count of a broker queue
MaxLen == 3         \* longest queue list of a proc in SpecCount
MaxRecs == 2        \* most records in one answer of the workers in SpecTally
MaxQueries == 2     \* cap on every counter of `calls`

(***************************************************************************)
(* Names.                                                                  *)
(***************************************************************************)
Apps == {"a1", "a2"}
QueueNames == {"x", "y"}
ValidStatuses == <<"active", "reserved", "scheduled">>
Statuses == {"active", "reserved", "scheduled", "bogus"}
QueryKinds == {"CeleryInspector", "active_queues", "active", "reserved", "scheduled"}
Libs == {"librabbitmq", "amqp"}

Range(s) == {s[i] : i \in DOMAIN s}

\* Python's None and a present value.
None == <<>>
Some(v) == <<v>>

\* The empty dict, and d[k] = v.
EmptyDict == [k \in {} |-> 0]
DictPut(d, k, v) == [x \in (DOMAIN d) \cup {k} |-> IF x = k THEN v ELSE d[x]]

\* Outcome of a call: a value or a raised exception.
OK == "ok"
KeyError == "KeyError"
ImportError == "ImportError"
UpstreamError == "UpstreamError"
BrokerError == "BrokerError"
\* The ChannelError class of a library.
ChannelError(lib) ==
    IF lib = "librabbitmq" THEN "librabbitmq.ChannelError" ELSE "amqp.ChannelError"

(***************************************************************************)
(* What the workers report.  A reply is the list of the per-worker lists   *)
(* (worker_queues.values()), or the failure of the query.                  *)
(***************************************************************************)
Binding(e, k, n) == [exchange |-> [name |-> e], routing_key |-> k, name |-> n]
Task(e, k) == [delivery_info |-> [exchange |-> e, routing_key |-> k]]

Replied(v) == [ok |-> TRUE, values |-> v]
Failed == [ok |-> FALSE, values |-> <<>>]

\* itertools.chain.from_iterable
RECURSIVE Chain(_)
Chain(lists) ==
    IF lists = <<>> THEN <<>> ELSE Head(lists) \o Chain(Tail(lists))

RECURSIVE RouteDictFirstWins(_)
RouteDictFirstWins(active_queues) ==
    IF active_queues = <<>> THEN EmptyDict
    ELSE LET queue == Head(active_queues)
         IN DictPut(RouteDictFirstWins(Tail(active_queues)),
                    <<queue.exchange.name, queue.routing_key>>, queue.name)
\* The dict comprehension of get_route_queues: later records overwrite.
RECURSIVE RouteDict(_)
RouteDict(active_queues) ==
    IF active_queues = <<>> THEN EmptyDict
    ELSE LET n == Len(active_queues)
             queue == active_queues[n]
         IN DictPut(RouteDict(SubSeq(active_queues, 1, n - 1)),
                    <<queue.exchange.name, queue.routing_key>>, queue.name)

\* collections.Counter(iterable), and Counter.__getitem__ (0 when absent).
RECURSIVE Counter(_)
Counter(queues) ==
    IF queues = <<>> THEN EmptyDict
    ELSE LET n == Len(queues)
             c == Counter(SubSeq(queues, 1, n - 1))
             q == queues[n]
         IN DictPut(c, q, IF q \in DOMAIN c THEN c[q] + 1 ELSE 1)

CounterGetSentinel(c, q) == IF q \in DOMAIN c THEN c[q] ELSE -1
CounterGet(c, q) == IF q \in DOMAIN c THEN c[q] ELSE 0

RECURSIVE SumSeq(_)
SumSeq(s) == IF s = <<>> THEN 0 ELSE Head(s) + SumSeq(Tail(s))

(***************************************************************************)
(* CeleryInspector.                                                        *)
(***************************************************************************)
\* CeleryInspector.__init__: the dict itself (memo) is empty.
NewInspector(app) == [app |-> app, route_queues |-> None, memo |-> EmptyDict]

Count(c, kind) == [c EXCEPT ![kind] = @ + 1]

\* The outcome of a piece of code: the object it acts on, the query
\* counters, the exception raised (or OK) and the value.
Result(self, c, err, value) == [self |-> self, calls |-> c, err |-> err, value |-> value]

\* get_route_queues (one round trip at most, answered by `inspect`).
GetRouteQueuesAlways(self, c, inspect) ==
    IF ~inspect.active_queues.ok
    THEN Result(self, Count(c, <<self.app, "active_queues">>), UpstreamError, EmptyDict)
    ELSE LET route_queues == RouteDict(Chain(inspect.active_queues.values))
         IN Result([self EXCEPT !.route_queues = Some(route_queues)],
                   Count(c, <<self.app, "active_queues">>), OK, route_queues)
GetRouteQueues(self, c, inspect) ==
    IF self.route_queues # None
    THEN Result(self, c, OK, self.route_queues[1])
    ELSE IF ~inspect.active_queues.ok
    THEN Result(self, Count(c, <<self.app, "active_queues">>), UpstreamError, EmptyDict)
    ELSE LET route_queues == RouteDict(Chain(inspect.active_queues.values))
         IN Result([self EXCEPT !.route_queues = Some(route_queues)],
                   Count(c, <<self.app, "active_queues">>), OK, route_queues)

GetQueueByKeyOnly(route_queues, task) ==
    IF \E p \in DOMAIN route_queues : p[2] = task.delivery_info.routing_key
    THEN Some(route_queues[CHOOSE p \in DOMAIN route_queues :
                              p[2] = task.delivery_info.routing_key])
    ELSE None
GetQueueOrDefault(route_queues, task) ==
    IF <<task.delivery_info.exchange, task.delivery_info.routing_key>>
          \in DOMAIN route_queues
    THEN Some(route_queues[<<task.delivery_info.exchange,
                             task.delivery_info.routing_key>>])
    ELSE Some("celery")
\* get_queue: None stands for the KeyError of route_queues[exchange, routing_key].
GetQueue(route_queues, task) ==
    LET exchange == task.delivery_info.exchange
        routing_key == task.delivery_info.routing_key
    IN IF <<exchange, routing_key>> \in DOMAIN route_queues
       THEN Some(route_queues[<<exchange, routing_key>>])
       ELSE None

\* map(get_queue, tasks) and Counter(queues), given the routing table.
CountQueues(route_queues, tasks) ==
    LET queues == [i \in DOMAIN tasks |-> GetQueue(route_queues, tasks[i])]
    IN IF \E i \in DOMAIN queues : queues[i] = None
       THEN [err |-> KeyError, value |-> EmptyDict]
       ELSE [err |-> OK, value |-> Counter([i \in DOMAIN queues |-> queues[i][1]])]

\* get_status_task_counts, lines 45-48: the check of the status, then
\* get_route_queues.
GetStatusTaskCountsRouteFirst(self, c, status, inspect) ==
    LET r == GetRouteQueues(self, c, inspect)
    IN IF r.err # OK THEN r
       ELSE IF status \notin Range(ValidStatuses)
       THEN Result(r.self, r.calls, KeyError, EmptyDict)
       ELSE r
GetStatusTaskCountsRoute(self, c, status, inspect) ==
    IF status \notin Range(ValidStatuses)
    THEN Result(self, c, KeyError, EmptyDict)
    ELSE GetRouteQueues(self, c, inspect)

\* get_status_task_counts, lines 55-57: the status query, answered by
\* `inspect`, and the tally by the routing table got at line 48.
GetStatusTaskCountsStoring(self, c, status, inspect) ==
    IF ~inspect[status].ok
    THEN Result(self, Count(c, <<self.app, status>>), UpstreamError, EmptyDict)
    ELSE LET t == CountQueues(self.route_queues[1], Chain(inspect[status].values))
         IN Result(IF t.err = OK
                   THEN [self EXCEPT !.memo = DictPut(@, status, t.value)]
                   ELSE self,
                   Count(c, <<self.app, status>>), t.err, t.value)
GetStatusTaskCountsForgetting(self, c, status, inspect) ==
    IF ~inspect[status].ok
    THEN Result([self EXCEPT !.route_queues = None],
                Count(c, <<self.app, status>>), UpstreamError, EmptyDict)
    ELSE LET t == CountQueues(self.route_queues[1], Chain(inspect[status].values))
         IN Result(IF t.err = OK THEN self ELSE [self EXCEPT !.route_queues = None],
                   Count(c, <<self.app, status>>), t.err, t.value)
GetStatusTaskCountsInspect(self, c, status, inspect) ==
    IF ~inspect[status].ok
    THEN Result(self, Count(c, <<self.app, status>>), UpstreamError, EmptyDict)
    ELSE LET t == CountQueues(self.route_queues[1], Chain(inspect[status].values))
         IN Result(self, Count(c, <<self.app, status>>), t.err, t.value)

\* KeyDefaultDict on the inspector: a key that is present is returned; a
\* missing one is computed by the default factory (get_status_task_counts)
\* and stored when the factory returns.
InspectorHas(self, status) == status \in DOMAIN self.memo
InspectorStore(self, status, value) == [self EXCEPT !.memo = DictPut(@, status, value)]

\* KeyDefaultDict(CeleryInspector).__getitem__ on the registry.
RegistryItem(registry, c, app) ==
    IF app \in DOMAIN registry
    THEN Result(registry, c, OK, registry[app])
    ELSE Result(DictPut(registry, app, NewInspector(app)),
                Count(c, <<app, "CeleryInspector">>), OK, NewInspector(app))

(***************************************************************************)
(* CeleryProc.                                                             *)
(***************************************************************************)
Proc(name, app, queues, inspect_statuses, has_size) ==
    [name |-> name, app |-> app, queues |-> queues,
     inspect_statuses |-> inspect_statuses, has_size |-> has_size]

\* cache.setdefault('celery_inspect', KeyDefaultDict(CeleryInspector))
EnsureRegistryFresh(cache_) == DictPut(cache_, "celery_inspect", EmptyDict)
EnsureRegistry(cache_) ==
    IF "celery_inspect" \in DOMAIN cache_
    THEN cache_
    ELSE DictPut(cache_, "celery_inspect", EmptyDict)

\* The key under which a proc finds its inspector: self.app.
InspectorKeyShared(p) == "a1"
InspectorKey(p) == p.app

\* The generator of inspect_count: statuses outside, queues inside.
StatusQueuePairsZipped(statuses, queues) ==
    [i \in 1..(IF Len(statuses) < Len(queues) THEN Len(statuses) ELSE Len(queues))
        |-> <<statuses[i], queues[i]>>]
RECURSIVE StatusQueuePairs(_, _)
StatusQueuePairs(statuses, queues) ==
    IF statuses = <<>> THEN <<>>
    ELSE [i \in DOMAIN queues |-> <<Head(statuses), queues[i]>>]
         \o StatusQueuePairs(Tail(statuses), queues)

(***************************************************************************)
(* The broker: whether it answers, and the message count of every queue    *)
(* that exists on it.  The libraries: which of them can be imported, and   *)
(* the one whose ChannelError the channel raises.                          *)
(***************************************************************************)
BrokerStates ==
    {[up |-> u, queues |-> m] :
        u \in BOOLEAN,
        m \in UNION {[D -> 0..MaxMsgs] : D \in SUBSET QueueNames}}

\* A channel of a library is there only when the library can be imported;
\* with neither, the channel is of some other transport.
LibStates ==
    {[importable |-> S, raises |-> l] :
        <<S, l>> \in {x \in (SUBSET Libs) \X Libs : x[1] = {} \/ x[2] \in x[1]}}

\* channel._size(queue): the length of the queue's list, 0 for an unknown one.
ChannelSize(brk, queue) ==
    IF ~brk.up THEN [err |-> BrokerError, size |-> 0]
    ELSE [err |-> OK,
          size |-> IF queue \in DOMAIN brk.queues THEN brk.queues[queue] ELSE 0]

\* channel.queue_declare(queue, passive): the broker afterwards, the outcome
\* and the message count.  A passive declare of a missing queue raises the
\* ChannelError of the channel's library; a plain declare creates the queue.
QueueDeclare(brk, queue, passive, lib) ==
    IF ~brk.up
    THEN [broker |-> brk, err |-> BrokerError, message_count |-> 0]
    ELSE IF queue \in DOMAIN brk.queues
    THEN [broker |-> brk, err |-> OK, message_count |-> brk.queues[queue]]
    ELSE IF passive
    THEN [broker |-> brk, err |-> ChannelError(lib), message_count |-> 0]
    ELSE [broker |-> [brk EXCEPT !.queues = DictPut(@, queue, 0)],
          err |-> OK, message_count |-> 0]

\* Lines 127-130: the ChannelError that quantity catches is librabbitmq's
\* when librabbitmq can be imported, else amqp's; None stands for the
\* ImportError of the second import.
ImportChannelError(importable) ==
    IF "librabbitmq" \in importable THEN Some(ChannelError("librabbitmq"))
    ELSE IF "amqp" \in importable THEN Some(ChannelError("amqp"))
    ELSE None

\* Redis: sum(...) over the sizes read.
SizeSumFirstOnly(sizes) == IF sizes = <<>> THEN 0 ELSE sizes[1]
SizeSum(sizes) == SumSeq(sizes)

\* AMQP: one iteration of the loop of lines 132-139: the broker afterwards,
\* the exception that leaves the loop (or OK) and what is added to count
\* (None when the queue was passed over).
TryDeclareAbsorbing(brk, queue, caught, lib) ==
    LET d == QueueDeclare(brk, queue, TRUE, lib)
    IN IF d.err = OK
       THEN [broker |-> d.broker, err |-> OK, add |-> Some(d.message_count)]
       ELSE [broker |-> d.broker, err |-> OK, add |-> None]
TryDeclareCreating(brk, queue, caught, lib) ==
    LET d == QueueDeclare(brk, queue, FALSE, lib)
    IN IF d.err = OK
       THEN [broker |-> d.broker, err |-> OK, add |-> Some(d.message_count)]
       ELSE IF d.err = caught
       THEN [broker |-> d.broker, err |-> OK, add |-> None]
       ELSE [broker |-> d.broker, err |-> d.err, add |-> None]
TryDeclare(brk, queue, caught, lib) ==
    LET d == QueueDeclare(brk, queue, TRUE, lib)
    IN IF d.err = OK
       THEN [broker |-> d.broker, err |-> OK, add |-> Some(d.message_count)]
       ELSE IF d.err = caught
       THEN [broker |-> d.broker, err |-> OK, add |-> None]
       ELSE [broker |-> d.broker, err |-> d.err, add |-> None]

\* The numbers among the reads (a queue passed over adds nothing).
RECURSIVE Numbers(_)
Numbers(reads) ==
    IF reads = <<>> THEN <<>>
    ELSE (IF Head(reads) = None THEN <<>> ELSE <<Head(reads)[1]>>) \o Numbers(Tail(reads))

(***************************************************************************)
(* The calls.  A call starts when no call is in progress, runs step by     *)
(* step and returns (pc = "done") with a value or an exception.            *)
(***************************************************************************)
NoProc == Proc("-", "-", <<>>, <<>>, FALSE)

\* The frame of a call: the method, its arguments, its position and its
\* local variables (reads: the broker's answers so far, None for a queue
\* passed over; j: the terms of inspect_count summed so far; total: their
\* sum), and the exception raised or the value returned.  prev is how the
\* call before ended when it was the same call of an inspector's method,
\* "-" otherwise.
Frame(op, p, app, status, with_cache, pc, prev) ==
    [op |-> op, proc |-> p, app |-> app, status |-> status,
     with_cache |-> with_cache, pc |-> pc, prev |-> prev,
     reads |-> <<>>, j |-> 0, total |-> 0,
     err |-> OK, n |-> 0, counts |-> EmptyDict, routes |-> EmptyDict]

NoCall == Frame("-", NoProc, "-", "-", FALSE, "done", "-")

NoCalls == [k \in Apps \X QueryKinds |-> 0]
Capped(c) == \A k \in DOMAIN c : c[k] <= MaxQueries

Idle == ret.pc = "done"
Prev(op, app, status) ==
    IF ret.op = op /\ ret.app = app /\ ret.status = status THEN ret.err ELSE "-"
Raise(err) == [ret EXCEPT !.pc = "done", !.err = err]
Return(n, counts, routes) ==
    [ret EXCEPT !.pc = "done", !.err = OK, !.n = n, !.counts = counts, !.routes = routes]

HasInspector(app) ==
    /\ "celery_inspect" \in DOMAIN cache
    /\ app \in DOMAIN cache["celery_inspect"]
Inspector(app) == cache["celery_inspect"][app]
WithInspector(app, self) ==
    DictPut(cache, "celery_inspect", DictPut(cache["celery_inspect"], app, self))

\* Line 141: cache is not None and self.inspect_statuses
ShouldInspectWithCache(p, with_cache) == with_cache
ShouldInspect(p, with_cache) == with_cache /\ p.inspect_statuses # <<>>

\* proc.quantity(cache=cache) and proc.quantity()
QuantityCall(p, with_cache) ==
    /\ Idle
    /\ ret' = Frame("quantity", p, InspectorKey(p), "-", with_cache, "line123", "-")
    /\ UNCHANGED <<broker, workers, libs, cache, calls>>

\* Lines 123-131: the kind of channel, and on the AMQP path the import.
QuantityBegin ==
    /\ ret.pc = "line123"
    /\ ret' = IF ret.proc.has_size THEN [ret EXCEPT !.pc = "size"]
              ELSE IF ImportChannelError(libs.importable) = None THEN Raise(ImportError)
              ELSE [ret EXCEPT !.pc = "declare"]
    /\ UNCHANGED <<broker, workers, libs, cache, calls>>

\* Line 125: one self.channel._size(queue) of the generator.
SizeStep ==
    /\ ret.pc = "size"
    /\ Len(ret.reads) < Len(ret.proc.queues)
    /\ LET s == ChannelSize(broker, ret.proc.queues[Len(ret.reads) + 1])
       IN ret' = IF s.err # OK THEN Raise(s.err)
                 ELSE [ret EXCEPT !.reads = Append(@, Some(s.size))]
    /\ UNCHANGED <<broker, workers, libs, cache, calls>>

\* Line 125: return sum(...)
SizeReturn ==
    /\ ret.pc = "size"
    /\ Len(ret.reads) = Len(ret.proc.queues)
    /\ ret' = Return(SizeSum(Numbers(ret.reads)), EmptyDict, EmptyDict)
    /\ UNCHANGED <<broker, workers, libs, cache, calls>>

\* Lines 132-139: one iteration of the loop.
DeclareStep ==
    /\ ret.pc = "declare"
    /\ Len(ret.reads) < Len(ret.proc.queues)
    /\ LET d == TryDeclare(broker, ret.proc.queues[Len(ret.reads) + 1],
                           ImportChannelError(libs.importable)[1], libs.raises)
       IN /\ broker' = d.broker
          /\ ret' = IF d.err # OK THEN Raise(d.err)
                    ELSE [ret EXCEPT !.reads = Append(@, d.add)]
    /\ UNCHANGED <<workers, libs, cache, calls>>

\* Lines 141-144 after the loop: on to inspect_count, or return count.
DeclareDone ==
    /\ ret.pc = "declare"
    /\ Len(ret.reads) = Len(ret.proc.queues)
    /\ ret' = IF ShouldInspect(ret.proc, ret.with_cache)
              THEN [ret EXCEPT !.pc = "line148"]
              ELSE Return(SumSeq(Numbers(ret.reads)), EmptyDict, EmptyDict)
    /\ UNCHANGED <<broker, workers, libs, cache, calls>>

\* proc.inspect_count(cache)
InspectCountCall(p) ==
    /\ Idle
    /\ ret' = Frame("inspect_count", p, InspectorKey(p), "-", TRUE, "line148", "-")
    /\ UNCHANGED <<broker, workers, libs, cache, calls>>

\* Line 148.
InspectBegin ==
    /\ ret.pc = "line148"
    /\ cache' = EnsureRegistry(cache)
    /\ ret' = [ret EXCEPT !.pc = "line150"]
    /\ UNCHANGED <<broker, workers, libs, calls>>

Pairs == StatusQueuePairs(ret.proc.inspect_statuses, ret.proc.queues)

\* Line 150, the next term: the registry's inspector (made when missing),
\* then the inspector's entry for the status: added to the sum when
\* present, computed by get_status_task_counts when missing.
InspectTerm ==
    /\ ret.pc = "line150"
    /\ ret.j < Len(Pairs)
    /\ LET status == Pairs[ret.j + 1][1]
           queue == Pairs[ret.j + 1][2]
           r == RegistryItem(cache["celery_inspect"], calls, ret.app)
       IN /\ Capped(r.calls)
          /\ cache' = DictPut(cache, "celery_inspect", r.self)
          /\ calls' = r.calls
          /\ ret' = IF InspectorHas(r.value, status)
                    THEN [ret EXCEPT !.j = @ + 1,
                                     !.total = @ + CounterGet(r.value.memo[status], queue)]
                    ELSE [ret EXCEPT !.pc = "line45", !.status = status]
    /\ UNCHANGED <<broker, workers, libs>>

\* Lines 149-153: return sum(...); in quantity, lines 142-144.
InspectReturn ==
    /\ ret.pc = "line150"
    /\ ret.j = Len(Pairs)
    /\ ret' = Return(IF ret.op = "quantity"
                     THEN SumSeq(Numbers(ret.reads)) + ret.total
                     ELSE ret.total,
                     EmptyDict, EmptyDict)
    /\ UNCHANGED <<broker, workers, libs, cache, calls>>

\* inspector.get_route_queues()
GetRouteQueuesCall(app) ==
    /\ Idle
    /\ HasInspector(app)
    /\ ret' = Frame("get_route_queues", NoProc, app, "-", FALSE, "line28",
                  Prev("get_route_queues", app, "-"))
    /\ UNCHANGED <<broker, workers, libs, cache, calls>>

\* Lines 28-38.
RouteStep ==
    /\ ret.pc = "line28"
    /\ LET r == GetRouteQueues(Inspector(ret.app), calls, workers)
       IN /\ Capped(r.calls)
          /\ cache' = WithInspector(ret.app, r.self)
          /\ calls' = r.calls
          /\ ret' = IF r.err # OK THEN Raise(r.err)
                    ELSE Return(0, EmptyDict, r.value)
    /\ UNCHANGED <<broker, workers, libs>>

\* inspector.get_status_task_counts(status)
GetStatusTaskCountsCall(app, status) ==
    /\ Idle
    /\ HasInspector(app)
    /\ ret' = Frame("get_status_task_counts", NoProc, app, status, FALSE, "line45",
                  Prev("get_status_task_counts", app, status))
    /\ UNCHANGED <<broker, workers, libs, cache, calls>>

\* inspector[status]
InspectorItemCall(app, status) ==
    /\ Idle
    /\ HasInspector(app)
    /\ ret' = Frame("inspector_item", NoProc, app, status, FALSE, "lookup",
                  Prev("inspector_item", app, status))
    /\ UNCHANGED <<broker, workers, libs, cache, calls>>

\* KeyDefaultDict.__getitem__: the stored entry, or on to the factory.
LookupStep ==
    /\ ret.pc = "lookup"
    /\ ret' = IF InspectorHas(Inspector(ret.app), ret.status)
              THEN Return(0, Inspector(ret.app).memo[ret.status], EmptyDict)
              ELSE [ret EXCEPT !.pc = "line45"]
    /\ UNCHANGED <<broker, workers, libs, cache, calls>>

\* Lines 45-48 of get_status_task_counts.
StatusBegin ==
    /\ ret.pc = "line45"
    /\ LET r == GetStatusTaskCountsRoute(Inspector(ret.app), calls, ret.status, workers)
       IN /\ Capped(r.calls)
          /\ cache' = WithInspector(ret.app, r.self)
          /\ calls' = r.calls
          /\ ret' = IF r.err # OK THEN Raise(r.err)
                    ELSE [ret EXCEPT !.pc = "line55"]
    /\ UNCHANGED <<broker, workers, libs>>

\* Lines 55-57 of get_status_task_counts, and what its caller does with the
\* counts: a direct call returns them; the lookup inspector[status] stores
\* and returns them; line 150 stores them and adds the queue's to the sum.
StatusInspect ==
    /\ ret.pc = "line55"
    /\ LET r == GetStatusTaskCountsInspect(Inspector(ret.app), calls, ret.status, workers)
       IN /\ Capped(r.calls)
          /\ calls' = r.calls
          /\ cache' = IF r.err = OK /\ ret.op # "get_status_task_counts"
                      THEN WithInspector(ret.app, InspectorStore(r.self, ret.status, r.value))
                      ELSE WithInspector(ret.app, r.self)
          /\ ret' = IF r.err # OK THEN Raise(r.err)
                    ELSE IF ret.op \in {"get_status_task_counts", "inspector_item"}
                    THEN Return(0, r.value, EmptyDict)
                    ELSE [ret EXCEPT !.pc = "line150", !.j = @ + 1,
                                     !.total = @ + CounterGet(r.value, Pairs[ret.j + 1][2])]
    /\ UNCHANGED <<broker, workers, libs>>

\* Messages arrive and leave, queues are created and deleted, the broker
\* goes down and comes back: none of it is this program's doing.
BrokerStep ==
    /\ broker' \in BrokerStates \ {broker}
    /\ UNCHANGED <<workers, libs, cache, calls, ret>>

(***************************************************************************)
(* Spec: procs of two apps sharing one cache object, while the broker and  *)
(* the workers' answers change among the sampled ones.                     *)
(***************************************************************************)
Procs ==
    {Proc("worker", "a1", <<"x", "y">>, <<"active", "reserved">>, FALSE),
     Proc("mail", "a1", <<"y">>, <<"active">>, FALSE),
     Proc("other", "a2", <<"x">>, <<"active">>, FALSE),
     Proc("redis", "a1", <<"x">>, <<"active">>, TRUE),
     Proc("plain", "a1", <<"x", "y">>, <<>>, FALSE),
     Proc("typo", "a1", <<"x">>, <<"reserved", "bogus">>, FALSE),
     Proc("idle", "a2", <<>>, <<"active">>, FALSE)}

BindingsA == << <<Binding("e", "r", "x")>>,
                <<Binding("e", "r", "y"), Binding("e", "s", "x")>> >>
BindingsB == << <<Binding("e", "r", "x")>> >>
TasksNone == << <<>> >>
TasksOne == << <<Task("e", "r")>> >>
TasksTwo == << <<Task("e", "r")>>, <<Task("e", "s")>> >>

\* The answers of app.control.inspect(): active_queues() and one per status.
Inspect(active_queues, active, reserved, scheduled) ==
    [active_queues |-> active_queues, active |-> active,
     reserved |-> reserved, scheduled |-> scheduled]

InspectSamples ==
    {Inspect(Replied(BindingsA), Replied(TasksTwo), Replied(TasksOne), Replied(TasksNone)),
     Inspect(Replied(BindingsB), Replied(TasksOne), Replied(TasksNone), Replied(TasksNone)),
     Inspect(Replied(BindingsB), Replied(TasksTwo), Replied(TasksNone), Replied(TasksNone)),
     Inspect(Failed, Replied(TasksOne), Replied(TasksNone), Replied(TasksNone)),
     Inspect(Replied(BindingsA), Failed, Replied(TasksOne), Replied(TasksNone))}

\* Tasks start and finish, workers come and go.
WorkersStep ==
    /\ workers' \in InspectSamples \ {workers}
    /\ UNCHANGED <<broker, libs, cache, calls, ret>>

BrokerSamples ==
    {[up |-> TRUE, queues |-> [q \in {"y"} |-> MaxMsgs]],
     [up |-> TRUE, queues |-> [q \in {"x", "y"} |-> 0]]}

BrokerSampleStep ==
    /\ broker' \in BrokerSamples \ {broker}
    /\ UNCHANGED <<workers, libs, cache, calls, ret>>

\* The same, with outages of the broker.
BrokerDown == [up |-> FALSE, queues |-> [q \in {"y"} |-> MaxMsgs]]
BrokerOutageStep ==
    /\ broker' \in (BrokerSamples \cup {BrokerDown}) \ {broker}
    /\ UNCHANGED <<workers, libs, cache, calls, ret>>

AmqpOnly == [importable |-> {"amqp"}, raises |-> "amqp"]

\* The steps of quantity and of inspect_count.
QuantitySteps ==
    \/ QuantityBegin
    \/ SizeStep
    \/ SizeReturn
    \/ DeclareStep
    \/ DeclareDone
    \/ InspectBegin
    \/ InspectTerm
    \/ StatusBegin
    \/ StatusInspect
    \/ InspectReturn

Init ==
    /\ broker \in BrokerSamples
    /\ workers \in InspectSamples
    /\ libs = AmqpOnly
    /\ cache = EmptyDict
    /\ calls = NoCalls
    /\ ret = NoCall

SharingProcs == {p \in Procs : p.name \in {"worker", "mail", "other", "redis"}}

Next ==
    \/ \E p \in SharingProcs : QuantityCall(p, TRUE)
    \/ \E p \in SharingProcs : InspectCountCall(p)
    \/ QuantitySteps
    \/ WorkersStep
    \/ BrokerSampleStep

Spec == Init /\ [][Next]_vars

(***************************************************************************)
(* SpecInspector: the methods of one inspector (CeleryInspector(a1)),      *)
(* while the workers' answers change among the sampled ones.               *)
(***************************************************************************)
InitInspector ==
    /\ broker = [up |-> TRUE, queues |-> EmptyDict]
    /\ workers \in InspectSamples
    /\ libs = AmqpOnly
    /\ cache = DictPut(EmptyDict, "celery_inspect",
                       DictPut(EmptyDict, "a1", NewInspector("a1")))
    /\ calls = Count(NoCalls, <<"a1", "CeleryInspector">>)
    /\ ret = NoCall

InspectorSteps ==
    \/ RouteStep
    \/ LookupStep
    \/ StatusBegin
    \/ StatusInspect

NextInspector ==
    \/ GetRouteQueuesCall("a1")
    \/ \E status \in Statuses : GetStatusTaskCountsCall("a1", status)
    \/ \E status \in Statuses : InspectorItemCall("a1", status)
    \/ InspectorSteps
    \/ WorkersStep

SpecInspector == InitInspector /\ [][NextInspector]_vars

(***************************************************************************)
(* SpecTally: get_route_queues and get_status_task_counts as functions of  *)
(* what the workers report: every answer of two workers with at most       *)
(* MaxRecs records in all, the tasks changing between the queries.         *)
(***************************************************************************)
RoutingPairs == {<<"e", "r">>, <<"e", "s">>, <<"f", "r">>}
Bindings == {Binding(p[1], p[2], n) : p \in RoutingPairs, n \in QueueNames}
Tasks == {Task(p[1], p[2]) : p \in RoutingPairs}

SeqsUpTo(S, n) == UNION {[1..k -> S] : k \in 0..n}
Replies(S) ==
    {Failed} \cup
    {Replied(<<SubSeq(recs, 1, k), SubSeq(recs, k + 1, Len(recs))>>) :
        <<recs, k>> \in {x \in SeqsUpTo(S, MaxRecs) \X (0..MaxRecs) : x[2] <= Len(x[1])}}

InitTally ==
    /\ broker = [up |-> TRUE, queues |-> EmptyDict]
    /\ \E active_queues \in Replies(Bindings), tasks \in Replies(Tasks) :
          workers = Inspect(active_queues, tasks, tasks, tasks)
    /\ libs = AmqpOnly
    /\ cache = DictPut(EmptyDict, "celery_inspect",
                       DictPut(EmptyDict, "a1", NewInspector("a1")))
    /\ calls = Count(NoCalls, <<"a1", "CeleryInspector">>)
    /\ ret = NoCall

\* Tasks start and finish: any other answer to the status queries.  Only
\* the changes during a call are taken: one between two calls is seen by
\* the next call just as one during its first step.
TasksStep ==
    /\ ~Idle
    /\ \E tasks \in Replies(Tasks) \ {workers.active} :
          workers' = Inspect(workers.active_queues, tasks, tasks, tasks)
    /\ UNCHANGED <<broker, libs, cache, calls, ret>>

NextTally ==
    \/ GetRouteQueuesCall("a1")
    \/ \E status \in {"active", "bogus"} : GetStatusTaskCountsCall("a1", status)
    \/ RouteStep
    \/ StatusBegin
    \/ StatusInspect
    \/ TasksStep

SpecTally == InitTally /\ [][NextTally]_vars

(***************************************************************************)
(* SpecCount: quantity without a cache object as a function of the broker  *)
(* and the libraries: every queue list of at most MaxLen names, on both    *)
(* kinds of channel, while the broker changes.                             *)
(***************************************************************************)
InitCount ==
    /\ broker \in BrokerStates
    /\ workers = Inspect(Failed, Failed, Failed, Failed)
    /\ libs \in LibStates
    /\ cache = EmptyDict
    /\ calls = NoCalls
    /\ ret = NoCall

NextCount ==
    \/ \E queues \in SeqsUpTo(QueueNames, MaxLen), has_size \in BOOLEAN :
          QuantityCall(Proc("count", "a1", queues, <<>>, has_size), FALSE)
    \/ QuantityBegin
    \/ SizeStep
    \/ SizeReturn
    \/ DeclareStep
    \/ DeclareDone
    \/ BrokerStep

SpecCount == InitCount /\ [][NextCount]_vars

(***************************************************************************)
(* SpecQuantity: quantity, with and without the cache object, with every   *)
(* combination of libraries, while the broker and the workers' answers     *)
(* change among the sampled ones and the broker goes down and comes back.  *)
(***************************************************************************)
InitQuantity ==
    /\ broker \in BrokerSamples
    /\ workers \in InspectSamples
    /\ libs \in LibStates
    /\ cache = EmptyDict
    /\ calls = NoCalls
    /\ ret = NoCall

CountingProcs == {p \in Procs : p.name \in {"worker", "redis", "plain", "idle"}}

NextQuantity ==
    \/ \E p \in CountingProcs, with_cache \in BOOLEAN : QuantityCall(p, with_cache)
    \/ QuantitySteps
    \/ WorkersStep
    \/ BrokerOutageStep

SpecQuantity == InitQuantity /\ [][NextQuantity]_vars

(***************************************************************************)
(* The properties.                                                         *)
(***************************************************************************)
\* A step of the program (every one moves the call), not of the broker or
\* the workers; the step on which a call of `op` ends; the queue the loop
\* of quantity is at.
ProgramStep == ret' # ret
Returns(op) == ret.pc # "done" /\ ret'.pc = "done" /\ ret'.op = op
AtQueue == Len(ret.reads) < Len(ret.proc.queues)
NextQueue == ret.proc.queues[Len(ret.reads) + 1]
Reported(brk, q) == IF q \in DOMAIN brk.queues THEN brk.queues[q] ELSE 0

\* The sum of the numbers read, counted from the right.
RECURSIVE SumOfReads(_)
SumOfReads(reads) ==
    IF reads = <<>> THEN 0
    ELSE LET n == Len(reads)
         IN (IF reads[n] = None THEN 0 ELSE reads[n][1]) + SumOfReads(SubSeq(reads, 1, n - 1))

\* C1: on a channel with _size, quantity asks the channel for the size of
\* each entry of the queue list in turn, a queue the broker does not know
\* counting with its reported size (0) and never raising, and returns the
\* sum of the sizes it was given, one per entry.
C1_DirectSizeSum ==
    [][(ret.op = "quantity" /\ ret.proc.has_size /\ ret.pc = "size" /\ ProgramStep)
       => IF AtQueue
          THEN broker.up
                  => /\ ret'.pc = "size"
                     /\ ret'.reads = Append(ret.reads, Some(Reported(broker, NextQueue)))
          ELSE /\ ret'.pc = "done"
               /\ ret'.err = OK
               /\ Len(ret'.reads) = Len(ret.proc.queues)
               /\ \A i \in DOMAIN ret'.reads : ret'.reads[i] # None
               /\ ret'.n = SumOfReads(ret'.reads)]_vars

\* The queue y listed twice, empty when asked first and holding a message
\* when asked again: the value is 1, and x, unknown to the broker now,
\* counted without an error.
C1_Witness ==
    /\ ret.op = "quantity" /\ ret.proc.has_size /\ ret.pc = "done" /\ ret.err = OK
    /\ ret.proc.queues = <<"y", "x", "y">>
    /\ ret.reads = <<Some(0), Some(0), Some(1)>>
    /\ ret.n = 1
    /\ broker.up /\ "x" \notin DOMAIN broker.queues

\* C2: on the passive-declare path without inspection, a queue that does
\* not exist is passed over: the channel error of its declare is absorbed,
\* it adds nothing to the count, and the loop goes on without raising.
C2_PassiveDeclareSkipsMissing ==
    [][(ret.op = "quantity" /\ ~ret.proc.has_size /\ ret.pc = "declare"
        /\ ~ShouldInspect(ret.proc, ret.with_cache)
        /\ ProgramStep /\ AtQueue /\ broker.up /\ NextQueue \notin DOMAIN broker.queues)
       => /\ ret'.pc = "declare"
          /\ ret'.reads = Append(ret.reads, None)]_vars

\* What holds of the loop: the missing queue is passed over exactly when
\* the channel raises the ChannelError class that lines 127-130 imported;
\* the other library's ChannelError leaves quantity.
C2_AbsorbedWhenClassImported ==
    [][(ret.op = "quantity" /\ ret.pc = "declare"
        /\ ProgramStep /\ AtQueue /\ broker.up /\ NextQueue \notin DOMAIN broker.queues)
       => IF "librabbitmq" \in libs.importable <=> libs.raises = "librabbitmq"
          THEN ret'.pc = "declare" /\ ret'.reads = Append(ret.reads, None)
          ELSE ret'.pc = "done" /\ ret'.err = ChannelError(libs.raises)]_vars

\* Both libraries installed, a py-amqp channel, x missing: amqp's
\* ChannelError has left quantity.
C2_Escaped ==
    /\ ret.op = "quantity" /\ ret.pc = "done" /\ ~ret.with_cache
    /\ ret.proc.queues = <<"x", "y">>
    /\ libs = [importable |-> Libs, raises |-> "amqp"]
    /\ ret.err = ChannelError("amqp")
    /\ ret.reads = <<>>

\* What is memoized for an app: its routing table (kind active_queues) or the
\* counts of a status.
Memoized(app, kind) ==
    /\ HasInspector(app)
    /\ IF kind = "active_queues"
       THEN Inspector(app).route_queues # None
       ELSE kind \in DOMAIN Inspector(app).memo
MemoizedValue(app, kind) ==
    IF kind = "active_queues"
    THEN Inspector(app).route_queues[1]
    ELSE Inspector(app).memo[kind]
WorkerQueries == QueryKinds \ {"CeleryInspector"}
PairOf(task) == <<task.delivery_info.exchange, task.delivery_info.routing_key>>

\* The count memoized in cache_ for (app, status, queue); 0 when the status's
\* counts hold no such queue.
MemoizedIn(cache_, app, status) ==
    /\ "celery_inspect" \in DOMAIN cache_
    /\ app \in DOMAIN cache_["celery_inspect"]
    /\ status \in DOMAIN cache_["celery_inspect"][app].memo
MemoCount(cache_, app, status, queue) ==
    IF ~MemoizedIn(cache_, app, status) THEN 0
    ELSE LET counts == cache_["celery_inspect"][app].memo[status]
         IN IF queue \in DOMAIN counts THEN counts[queue] ELSE 0
\* The sum of the memoized counts over a proc's statuses and queues.
MemoSum(cache_, p) ==
    SumSeq([i \in DOMAIN p.inspect_statuses |->
       SumSeq([k \in DOMAIN p.queues |->
          MemoCount(cache_, p.app, p.inspect_statuses[i], p.queues[k])])])
AllMemoizedIn(cache_, p) ==
    \A i \in DOMAIN p.inspect_statuses :
       p.queues # <<>> => MemoizedIn(cache_, p.app, p.inspect_statuses[i])

\* C3: with a cache object and a non-empty inspect_statuses, the value
\* quantity returns is the broker-side total plus inspect_count(cache), on
\* either counting path: the statuses have been inspected and their
\* memoized counts are in the value.
C3_InspectCountAddedOnEitherPath ==
    [][(Returns("quantity") /\ ret'.with_cache /\ ret'.proc.inspect_statuses # <<>>
        /\ ret'.err = OK)
       => /\ AllMemoizedIn(cache', ret'.proc)
          /\ ret'.n = SumOfReads(ret'.reads) + MemoSum(cache', ret'.proc)]_vars

\* The same on the passive-declare path alone.
C3_InspectCountAddedOnDeclarePath ==
    [][(Returns("quantity") /\ ret'.with_cache /\ ret'.proc.inspect_statuses # <<>>
        /\ ret'.err = OK /\ ~ret'.proc.has_size)
       => /\ AllMemoizedIn(cache', ret'.proc)
          /\ ret'.n = SumOfReads(ret'.reads) + MemoSum(cache', ret'.proc)]_vars

\* A channel with _size: quantity with the cache object has returned the
\* size alone, and nothing was inspected.
C3_SizeAlone ==
    /\ ret.op = "quantity" /\ ret.proc.name = "redis" /\ ret.with_cache
    /\ ret.pc = "done" /\ ret.err = OK
    /\ cache = EmptyDict /\ calls = NoCalls

\* C4 as claimed: however many quantity / inspect_count calls are made
\* against the cache object, every app's workers are asked at most once for
\* their queues and at most once per status.
C4_AtMostOneQueryPerKind ==
    \A app \in Apps, kind \in WorkerQueries : calls[<<app, kind>>] <= 1

\* C4 as amended: a worker query is issued only while its result is not
\* memoized in the app's inspector, one at a step; what is memoized stays
\* as it is.  So only the queries whose computation succeeds are limited to
\* one; a failed one is issued again by a later call.
C4_QueriesOnlyWhileNotMemoized ==
    [][\A app \in Apps, kind \in WorkerQueries :
          /\ calls'[<<app, kind>>] # calls[<<app, kind>>]
                => /\ calls'[<<app, kind>>] = calls[<<app, kind>>] + 1
                   /\ ~Memoized(app, kind)
          /\ Memoized(app, kind)
                => /\ Memoized(app, kind)'
                   /\ MemoizedValue(app, kind)' = MemoizedValue(app, kind)]_vars

C4_Witness ==
    /\ ret.op = "quantity" /\ ret.proc.name = "mail" /\ ret.pc = "done" /\ ret.err = OK
    /\ Memoized("a1", "active_queues")
    /\ Memoized("a1", "active") /\ Memoized("a1", "reserved")
    /\ calls[<<"a1", "active_queues">>] = 1
    /\ calls[<<"a1", "active">>] = 2
    /\ calls[<<"a1", "reserved">>] = 1

\* C5: a cache object holds at most one inspector per app: inspect_count
\* creates the registry when it is absent and the app's inspector at its
\* first lookup, and every later step finds that inspector, with all it has
\* memoized, and constructs no other.
C5_OneInspectorPerApp ==
    [][/\ \A app \in Apps :
             /\ calls'[<<app, "CeleryInspector">>] <= 1
             /\ HasInspector(app)
                   => /\ HasInspector(app)'
                      /\ calls'[<<app, "CeleryInspector">>] = calls[<<app, "CeleryInspector">>]
                      /\ Inspector(app)'.app = Inspector(app).app
                      /\ DOMAIN Inspector(app).memo \subseteq DOMAIN Inspector(app)'.memo
                      /\ Inspector(app).route_queues # None
                            => Inspector(app)'.route_queues = Inspector(app).route_queues
       /\ Returns("inspect_count")
             => /\ "celery_inspect" \in DOMAIN cache'
                /\ (ret'.proc.inspect_statuses # <<>> /\ ret'.proc.queues # <<>>)
                      => \A app \in Apps : ret'.proc.app = app => HasInspector(app)']_vars

C5_Witness ==
    /\ ret.op = "inspect_count" /\ ret.proc.name = "mail" /\ ret.pc = "done" /\ ret.err = OK
    /\ HasInspector("a1") /\ HasInspector("a2")
    /\ "reserved" \in DOMAIN Inspector("a1").memo
    /\ calls[<<"a1", "CeleryInspector">>] = 1
    /\ calls[<<"a2", "CeleryInspector">>] = 1

\* C6 as claimed: of two calls of get_status_task_counts('active') on one
\* inspector, the second is answered from memoized state and asks the
\* workers nothing.
C6_SecondCallAsksNothing ==
    [][(/\ ret.op = "get_status_task_counts" /\ ret.status = "active"
        /\ ret.prev = OK /\ ret.pc # "done" /\ ProgramStep)
       => calls'[<<ret.app, "active">>] = calls[<<ret.app, "active">>]]_vars

\* C6 as amended: the memoization is that of the lookup inspector[status]:
\* once a status is stored, a lookup returns the stored counts and asks the
\* workers nothing, and a lookup that computes stores what it returns.
\* get_status_task_counts itself stores nothing and asks the workers at
\* every call with a valid status that gets a routing table.
C6_LookupMemoizesMethodDoesNot ==
    [][\A app \in Apps, status \in Statuses :
          /\ (/\ ret.op = "inspector_item" /\ ret.pc = "lookup" /\ ProgramStep
              /\ ret.app = app /\ ret.status = status /\ Memoized(app, status))
                => /\ ret'.pc = "done" /\ ret'.err = OK
                   /\ ret'.counts = MemoizedValue(app, status)
                   /\ UNCHANGED <<cache, calls>>
          /\ (/\ Returns("inspector_item") /\ ret.app = app /\ ret.status = status
              /\ ret'.err = OK)
                => /\ Memoized(app, status)'
                   /\ MemoizedValue(app, status)' = ret'.counts
          /\ (/\ ret.op = "get_status_task_counts" /\ ret.pc # "done" /\ ProgramStep
              /\ ret.app = app /\ ret.status = status)
                => /\ Inspector(app)'.memo = Inspector(app).memo
                   /\ (/\ ret.pc = "line45" /\ status \in Range(ValidStatuses)
                       /\ Memoized(app, "active_queues")')
                         => ret'.pc = "line55"
                   /\ ret.pc = "line55"
                         => /\ ret'.pc = "done"
                            /\ calls'[<<app, status>>] = calls[<<app, status>>] + 1]_vars

\* The stored counts are returned although the workers' tasks are others by
\* now.
C6_Witness ==
    /\ ret.op = "inspector_item" /\ ret.status = "active"
    /\ ret.pc = "done" /\ ret.err = OK /\ ret.prev = OK
    /\ Memoized("a1", "active")
    /\ ret.counts = Inspector("a1").memo["active"]
    /\ calls[<<"a1", "active">>] = 1
    /\ workers.active.ok
    /\ CountQueues(Inspector("a1").route_queues[1], Chain(workers.active.values)).value
          # ret.counts

\* C7: asking for the counts of a status other than active, reserved and
\* scheduled, by get_status_task_counts or by inspector[status], raises
\* KeyError, asks the workers nothing and leaves the inspector as it was:
\* nothing stored, the routing table as before, the stored counts untouched.
C7_InvalidStatusKeyError ==
    [][(/\ ret'.op \in {"get_status_task_counts", "inspector_item"}
        /\ ret'.status \notin {"active", "reserved", "scheduled"}
        /\ ProgramStep)
       => /\ UNCHANGED <<cache, calls>>
          /\ ret'.pc # "line55"
          /\ ret'.pc = "done" => ret'.err = KeyError
          /\ ret.pc = "line45" => ret'.pc = "done"]_vars

C7_Witness ==
    /\ ret.op = "inspector_item" /\ ret.status = "bogus"
    /\ ret.pc = "done" /\ ret.err = KeyError
    /\ ~Memoized("a1", "bogus")
    /\ Memoized("a1", "active") /\ ~Memoized("a1", "reserved")
    /\ calls[<<"a1", "active">>] = 1 /\ calls[<<"a1", "active_queues">>] = 1

\* C14: a routing table, once built, stays: no later step changes it or
\* asks the workers for their queues again, get_route_queues returns it and
\* get_status_task_counts places the tasks by it, whatever the workers'
\* bindings are by then.  Only an inspector that has none yet (a new one)
\* resolves the bindings, as the workers report them at that step.
C14_RoutingTableBuiltOnce ==
    [][\A app \in Apps :
          /\ Memoized(app, "active_queues")
                => /\ Memoized(app, "active_queues")'
                   /\ MemoizedValue(app, "active_queues")'
                         = MemoizedValue(app, "active_queues")
                   /\ calls'[<<app, "active_queues">>] = calls[<<app, "active_queues">>]
                   /\ (ret.pc = "line28" /\ ProgramStep /\ ret.app = app)
                         => /\ ret'.pc = "done" /\ ret'.err = OK
                            /\ ret'.routes = MemoizedValue(app, "active_queues")
                   /\ \A status \in Range(ValidStatuses) :
                         (/\ ret.pc = "line55" /\ ProgramStep
                          /\ ret.app = app /\ ret.status = status
                          /\ workers[status].ok)
                         => LET t == CountQueues(MemoizedValue(app, "active_queues"),
                                                 Chain(workers[status].values))
                            IN /\ ret'.pc = "done"
                               /\ ret'.err = t.err
                               /\ ret'.counts = t.value
          /\ (/\ ~Memoized(app, "active_queues")
              /\ ret.pc \in {"line28", "line45"} /\ ProgramStep /\ ret.app = app
              /\ ret.pc = "line45" => ret.status \in Range(ValidStatuses)
              /\ workers.active_queues.ok)
                => /\ ret'.err = OK
                   /\ ret.pc = "line28"
                         => /\ ret'.pc = "done"
                            /\ ret'.routes = RouteDict(Chain(workers.active_queues.values))
                   /\ Memoized(app, "active_queues")'
                   /\ MemoizedValue(app, "active_queues")'
                         = RouteDict(Chain(workers.active_queues.values))
                   /\ calls'[<<app, "active_queues">>]
                         = calls[<<app, "active_queues">>] + 1]_vars

C14_Witness ==
    /\ ret.op = "get_status_task_counts" /\ ret.status = "active"
    /\ ret.pc = "done" /\ ret.err = OK
    /\ Memoized("a1", "active_queues")
    /\ calls[<<"a1", "active_queues">>] = 1
    /\ workers.active_queues.ok /\ workers.active.ok
    /\ RouteDict(Chain(workers.active_queues.values)) # Inspector("a1").route_queues[1]
    /\ ret.counts = CountQueues(Inspector("a1").route_queues[1],
                               Chain(workers.active.values)).value
    /\ ret.counts # CountQueues(RouteDict(Chain(workers.active_queues.values)),
                               Chain(workers.active.values)).value

\* C18: a lookup of a status whose computation fails (a task the routing
\* table does not know, or a failed worker query) stores nothing for the
\* status and leaves the stored counts of the other statuses as they are;
\* the routing table, built before the call or in it, is memoized
\* afterwards.  The next lookup of the status asks the workers for the
\* status again, not for their queues, and places the tasks by the same
\* table.
C18_FailedStatusNotStored ==
    [][\A app \in Apps, status \in Range(ValidStatuses) :
          (/\ ret.op = "inspector_item" /\ ret.pc # "done" /\ ProgramStep
           /\ ret.app = app /\ ret.status = status)
          => /\ (ret'.pc # "done" \/ ret'.err # OK)
                   => /\ ~Memoized(app, status) => ~Memoized(app, status)'
                      /\ Inspector(app)'.memo = Inspector(app).memo
             /\ Memoized(app, "active_queues")
                   => /\ Memoized(app, "active_queues")'
                      /\ MemoizedValue(app, "active_queues")'
                            = MemoizedValue(app, "active_queues")
             /\ (/\ ret.pc = "line45" /\ ~Memoized(app, "active_queues")
                 /\ workers.active_queues.ok)
                   => /\ Memoized(app, "active_queues")'
                      /\ MemoizedValue(app, "active_queues")'
                            = RouteDict(Chain(workers.active_queues.values))
             /\ (ret.prev \notin {OK, "-"} /\ Memoized(app, "active_queues"))
                   => /\ ret.pc = "lookup" => ret'.pc = "line45"
                      /\ ret.pc = "line45" => ret'.pc = "line55"
                      /\ calls'[<<app, "active_queues">>] = calls[<<app, "active_queues">>]
                      /\ ret.pc = "line55"
                            => /\ calls'[<<app, status>>] = calls[<<app, status>>] + 1
                               /\ workers[status].ok
                                     => LET t == CountQueues(
                                                    MemoizedValue(app, "active_queues"),
                                                    Chain(workers[status].values))
                                        IN /\ ret'.err = t.err
                                           /\ ret'.counts = t.value]_vars

C18_Witness ==
    /\ ret.op = "inspector_item" /\ ret.status = "active"
    /\ ret.pc = "done" /\ ret.err = KeyError /\ ret.prev = KeyError
    /\ Memoized("a1", "active_queues") /\ Memoized("a1", "reserved")
    /\ ~Memoized("a1", "active")
    /\ calls[<<"a1", "active">>] = 2
    /\ calls[<<"a1", "active_queues">>] = 1
    /\ workers.active_queues.ok
    /\ RouteDict(Chain(workers.active_queues.values)) # Inspector("a1").route_queues[1]

\* The tasks of an answer, as (worker, position) pairs.
TaskPlaces(values) == {<<w, i>> \in (DOMAIN values) \X (1..MaxRecs) : i <= Len(values[w])}

\* C8: when every reported task's (exchange, routing_key) is in the routing
\* table, get_status_task_counts(status) returns, for every queue, the number
\* of tasks over all workers that the table sends to it, and holds no queue
\* without a task.
C8_TallyPerQueue ==
    [][\A app \in Apps, status \in {"active", "reserved", "scheduled"} :
          (/\ ret.op = "get_status_task_counts" /\ ret.pc = "line55" /\ ProgramStep
           /\ ret.app = app /\ ret.status = status
           /\ workers[status].ok
           /\ \A t \in Range(Chain(workers[status].values)) :
                 PairOf(t) \in DOMAIN MemoizedValue(app, "active_queues"))
          => LET route == MemoizedValue(app, "active_queues")
                 values == workers[status].values
                 n(q) == Cardinality({pl \in TaskPlaces(values) :
                                         route[PairOf(values[pl[1]][pl[2]])] = q})
             IN /\ ret'.pc = "done" /\ ret'.err = OK
                /\ DOMAIN ret'.counts = {q \in QueueNames : n(q) > 0}
                /\ \A q \in DOMAIN ret'.counts : ret'.counts[q] = n(q)]_vars

C8_Witness ==
    /\ ret.op = "get_status_task_counts" /\ ret.status = "active"
    /\ ret.pc = "done" /\ ret.err = OK
    /\ workers.active.ok
    /\ Len(workers.active.values[1]) = 1 /\ Len(workers.active.values[2]) = 1
    /\ PairOf(workers.active.values[1][1]) # PairOf(workers.active.values[2][1])
    /\ \E q \in DOMAIN ret.counts : ret.counts[q] = 2

PairOfBinding(queue) == <<queue.exchange.name, queue.routing_key>>
\* Place a comes before place b in the flattened per-worker sequence.
Before(a, b) == a[1] < b[1] \/ (a[1] = b[1] /\ a[2] < b[2])

\* C16: get_route_queues, building the table from what the workers report,
\* maps every (exchange name, routing key) of any reported record, and no
\* other pair, to the queue name of the last record with that pair in the
\* flattened per-worker sequence, and raises nothing when records share a
\* pair.
C16_LastBindingWins ==
    [][\A app \in Apps :
          (/\ ret.op = "get_route_queues" /\ ret.pc = "line28" /\ ProgramStep
           /\ ret.app = app
           /\ ~Memoized(app, "active_queues")
           /\ workers.active_queues.ok)
          => LET values == workers.active_queues.values
                 places == TaskPlaces(values)
                 rec(pl) == values[pl[1]][pl[2]]
             IN /\ ret'.pc = "done" /\ ret'.err = OK
                /\ DOMAIN ret'.routes = {PairOfBinding(rec(pl)) : pl \in places}
                /\ \A pl \in places :
                      (\A other \in places :
                          (PairOfBinding(rec(other)) = PairOfBinding(rec(pl)))
                             => ~Before(pl, other))
                      => ret'.routes[PairOfBinding(rec(pl))] = rec(pl).name]_vars

C16_Witness ==
    /\ ret.op = "get_route_queues" /\ ret.pc = "done" /\ ret.err = OK
    /\ workers.active_queues.ok
    /\ Len(workers.active_queues.values[1]) = 1
    /\ Len(workers.active_queues.values[2]) = 1
    /\ LET first == workers.active_queues.values[1][1]
           last == workers.active_queues.values[2][1]
       IN /\ PairOfBinding(first) = PairOfBinding(last)
          /\ first.name # last.name
          /\ ret.routes[PairOfBinding(first)] = last.name

\* The term of inspect_count after j others: statuses outside, queues inside.
TermStatus(p, j) == p.inspect_statuses[(j \div Len(p.queues)) + 1]
TermQueue(p, j) == p.queues[(j % Len(p.queues)) + 1]

\* C9: inspect_count returns the sum over the proc's statuses and queues of
\* the memoized count (every status it pairs with a queue is memoized when
\* it returns); a term whose status is memoized adds the memoized count, 0
\* for a queue absent from the status's counts, and raises nothing.
C9_InspectCountSums ==
    [][/\ (Returns("inspect_count") /\ ret'.err = OK)
             => /\ AllMemoizedIn(cache', ret'.proc)
                /\ ret'.n = MemoSum(cache', ret'.proc)
       /\ (/\ ret.op = "inspect_count" /\ ret.pc = "line150" /\ ProgramStep
           /\ ret.j < Len(ret.proc.inspect_statuses) * Len(ret.proc.queues)
           /\ MemoizedIn(cache, ret.proc.app, TermStatus(ret.proc, ret.j)))
             => /\ ret'.pc = "line150"
                /\ ret'.j = ret.j + 1
                /\ ret'.total = ret.total + MemoCount(cache, ret.proc.app,
                                                      TermStatus(ret.proc, ret.j),
                                                      TermQueue(ret.proc, ret.j))
                /\ calls' = calls]_vars

C9_Witness ==
    /\ ret.op = "inspect_count" /\ ret.proc.name = "worker"
    /\ ret.pc = "done" /\ ret.err = OK
    /\ ret.n = 3
    /\ Memoized("a1", "reserved")
    /\ "x" \notin DOMAIN Inspector("a1").memo["reserved"]

\* C10: procs of different apps sharing the cache object have inspectors of
\* their own: a step of quantity or inspect_count of one app leaves the
\* other app's inspector (its routing table and counts) and the other
\* app's workers alone.
C10_InspectorsIndependent ==
    [][\A app \in Apps :
          /\ HasInspector(app)' => Inspector(app)'.app = app
          /\ (ProgramStep /\ ret'.op \in {"quantity", "inspect_count"}
              /\ ret'.proc.app = app)
                => \A other \in Apps \ {app} :
                      /\ HasInspector(other)' = HasInspector(other)
                      /\ HasInspector(other) => Inspector(other)' = Inspector(other)
                      /\ \A kind \in QueryKinds :
                            calls'[<<other, kind>>] = calls[<<other, kind>>]]_vars

C10_Witness ==
    /\ ret.op = "quantity" /\ ret.proc.app = "a2" /\ ret.pc = "done" /\ ret.err = OK
    /\ Memoized("a1", "active") /\ Memoized("a2", "active")
    /\ Inspector("a1").route_queues # Inspector("a2").route_queues
    /\ Inspector("a1").memo["active"] # Inspector("a2").memo["active"]

\* C12: when a status's worker query is answered with a task whose
\* (exchange, routing_key) is not in the inspector's routing table,
\* inspect_count and quantity raise KeyError and the status is not stored;
\* the routing table is not resolved again: it is kept as it is and the
\* workers are not asked for their queues.
C12_RoutingMissPropagates ==
    [][\A app \in Apps, status \in Range(ValidStatuses) :
          (/\ ret.op \in {"inspect_count", "quantity"} /\ ret.pc = "line55"
           /\ ProgramStep
           /\ ret.proc.app = app /\ ret.status = status
           /\ workers[status].ok
           /\ \E t \in Range(Chain(workers[status].values)) :
                 PairOf(t) \notin DOMAIN MemoizedValue(app, "active_queues"))
          => /\ ret'.pc = "done"
             /\ ret'.err = KeyError
             /\ ret'.n = 0
             /\ ~Memoized(app, status)'
             /\ calls'[<<app, status>>] = calls[<<app, status>>] + 1
             /\ calls'[<<app, "active_queues">>] = calls[<<app, "active_queues">>]
             /\ Memoized(app, "active_queues")'
             /\ MemoizedValue(app, "active_queues")'
                   = MemoizedValue(app, "active_queues")]_vars

\* The table was built from one answer of the workers and the tasks came
\* with a later one.
C12_Witness ==
    /\ ret.op = "quantity" /\ ret.proc.name = "mail" /\ ret.with_cache
    /\ ret.pc = "done" /\ ret.err = KeyError
    /\ Memoized("a1", "active_queues") /\ ~Memoized("a1", "active")
    /\ DOMAIN Inspector("a1").route_queues[1] = {<<"e", "r">>}
    /\ workers.active_queues = Replied(BindingsA)
    /\ workers.active = Replied(TasksTwo)
    /\ calls[<<"a1", "active_queues">>] = 1

\* C11: a missing queue is the only failure quantity absorbs, and only by
\* the ChannelError class it imported.  A broker that does not answer ends
\* quantity with the broker's error; the loop goes on to the next queue only
\* past a queue that was declared or a missing one; a worker query that
\* fails ends quantity with that error; a failed query is issued once, and a
\* call that raises returns no value.
C11_OnlyMissingQueueAbsorbed ==
    [][(ret.op = "quantity" /\ ret.pc # "done" /\ ProgramStep)
       => /\ (ret.pc \in {"size", "declare"} /\ AtQueue /\ ~broker.up)
                => /\ ret'.pc = "done" /\ ret'.err = BrokerError
                   /\ UNCHANGED <<cache, calls>>
          /\ (ret.pc = "declare" /\ AtQueue /\ ret'.pc = "declare")
                => /\ broker.up
                   /\ ret'.reads = Append(ret.reads,
                                      IF NextQueue \in DOMAIN broker.queues
                                      THEN Some(broker.queues[NextQueue]) ELSE None)
                   /\ NextQueue \notin DOMAIN broker.queues
                         => ImportChannelError(libs.importable)
                               = Some(ChannelError(libs.raises))
          /\ (/\ ret.pc = "line45" /\ ~Memoized(ret.app, "active_queues")
              /\ ~workers.active_queues.ok)
                => /\ ret'.pc = "done" /\ ret'.err = UpstreamError
                   /\ calls'[<<ret.app, "active_queues">>]
                         = calls[<<ret.app, "active_queues">>] + 1
          /\ (ret.pc = "line55" /\ ~workers[ret.status].ok)
                => /\ ret'.pc = "done" /\ ret'.err = UpstreamError
                   /\ calls'[<<ret.app, ret.status>>] = calls[<<ret.app, ret.status>>] + 1
                   /\ ~Memoized(ret.app, ret.status)'
          /\ (ret'.pc = "done" /\ ret'.err # OK) => ret'.n = 0
          /\ \A k \in DOMAIN calls : calls'[k] <= calls[k] + 1]_vars

\* The missing queue x was passed over, then the broker went away: its
\* error has left quantity.
C11_Witness ==
    /\ ret.op = "quantity" /\ ret.proc.name = "worker" /\ ret.pc = "done"
    /\ ret.reads = <<None>>
    /\ ret.err = BrokerError
    /\ ~broker.up

\* C13: quantity leaves the broker as it is, on either path: no step of the
\* program changes the queues that exist or their message counts, and a
\* queue that was missing when it was declared passively is not created.
C13_BrokerUnchanged ==
    [][ProgramStep => broker' = broker]_vars

C13_Witness ==
    /\ ret.op = "quantity" /\ ~ret.proc.has_size /\ ret.pc = "done" /\ ret.err = OK
    /\ ret.proc.queues = <<"x", "y">>
    /\ ret.reads = <<None, Some(MaxMsgs)>>
    /\ broker.up
    /\ "x" \notin DOMAIN broker.queues
    /\ "y" \in DOMAIN broker.queues /\ ret.n = broker.queues["y"]

\* C15: with no queue size below 0, whatever quantity returns is a
\* non-negative integer, on either path, with or without inspection.
C15_QuantityNonNegative ==
    (ret.op = "quantity" /\ ret.pc = "done" /\ ret.err = OK) => ret.n \in Nat

C15_Witness ==
    /\ ret.op = "quantity" /\ ret.proc.name = "worker" /\ ret.with_cache
    /\ ret.pc = "done" /\ ret.err = OK
    /\ Memoized("a1", "active") /\ Memoized("a1", "reserved")
    /\ "x" \notin DOMAIN Inspector("a1").memo["reserved"]
    /\ ret.n = SumOfReads(ret.reads) + 3

\* C17: a quantity without a cache object, or of a proc with no
\* inspect_statuses, asks the workers nothing, constructs no inspector and
\* leaves the cache object as it is (no registry is added); it never enters
\* inspect_count, and what it returns is the broker-side total alone.
C17_NoInspectionWithoutCacheOrStatuses ==
    [][(ProgramStep /\ ret'.op = "quantity"
        /\ (~ret'.with_cache \/ ret'.proc.inspect_statuses = <<>>))
       => /\ calls' = calls
          /\ cache' = cache
          /\ ret'.pc \in {"line123", "size", "declare", "done"}
          /\ (ret'.pc = "done" /\ ret'.err = OK)
                => /\ Len(ret'.reads) = Len(ret'.proc.queues)
                   /\ ret'.n = SumOfReads(ret'.reads)]_vars

C17_Witness ==
    /\ ret.op = "quantity" /\ ret.proc.name = "plain" /\ ret.with_cache
    /\ ret.pc = "done" /\ ret.err = OK /\ ret.n > 0
    /\ cache = EmptyDict
    /\ calls = NoCalls
    /\ workers.active_queues.ok /\ workers.active.ok

====
